---- MODULE Spec2Model ----
(***************************************************************************)
(* riobard/dmarc: a command-line tool that decodes DMARC aggregate         *)
(* reports, folds their records into per-destination-domain counters,      *)
(* collects one aggregate per input stream over a channel, sorts the       *)
(* aggregates and prints them.                                             *)
(*                                                                         *)
(* The model follows the channel-based revision (src/unnamed/part_000).    *)
(* Spec      is the whole pipeline: main, the ingestion goroutines and the *)
(*           collector goroutine.                                          *)
(* SpecAdd   is the aggregation loop of parse (part_000:290-292) run on    *)
(*           the records of one document, one Report.Add call per step.    *)
(*                                                                         *)
(* Go strings that are only compared for equality are TLA+ strings;        *)
(* strings that are ordered with < (organization, policy domain) are       *)
(* sequences of byte values; the text of a date field is a sequence of     *)
(* one-character strings.                                                  *)
(***************************************************************************)
EXTENDS Integers, Sequences, FiniteSets, TLC

(***************************************************************************)
(* Bounds of the model.                                                    *)
(***************************************************************************)
\* the largest count field of a record
MaxCount == 1
\* the number of records of the document fed to the aggregation loop
MaxRecs == 2
\* the number of command-line arguments (input paths)
MaxFiles == 2
\* the capacity of the channel out in the scaled-down pipeline, where the
\* streams outnumber it
ScaledCap == 1
\* the length of the date-range texts that are enumerated
MaxText == 2

(***************************************************************************)
(* Helpers on sequences.                                                   *)
(***************************************************************************)
Range(s) == {s[i] : i \in DOMAIN s}

\* s without its i-th element
Remove(s, i) == SubSeq(s, 1, i - 1) \o SubSeq(s, i + 1, Len(s))

\* every arrangement of the elements of s
RECURSIVE Arrangements(_)
Arrangements(s) ==
    IF s = <<>> THEN {<<>>}
    ELSE UNION {{<<s[i]>> \o q : q \in Arrangements(Remove(s, i))} : i \in DOMAIN s}

\* the number of positions of s that hold x
CountOf(s, x) == Cardinality({i \in DOMAIN s : s[i] = x})

\* s and t hold the same elements the same number of times
SameBag(s, t) ==
    /\ Len(s) = Len(t)
    /\ \A x \in Range(s) \cup Range(t) : CountOf(s, x) = CountOf(t, x)

(***************************************************************************)
(* Go's < on strings: bytewise lexicographic order.                        *)
(***************************************************************************)
StrLess(a, b) ==
    \E k \in 1..Len(b) :
        /\ \A i \in 1..(k - 1) : i <= Len(a) /\ a[i] = b[i]
        /\ (k > Len(a) \/ a[k] < b[k])

(***************************************************************************)
(* strings.TrimSpace and strconv.Atoi as DateBegin and DateEnd call them.  *)
(***************************************************************************)
Spaces == {" ", "\n", "\t"}

Digits == {"0", "1", "2", "3", "4", "5", "6", "7", "8", "9"}

DigitVal(c) ==
    CASE c = "0" -> 0 [] c = "1" -> 1 [] c = "2" -> 2 [] c = "3" -> 3
      [] c = "4" -> 4 [] c = "5" -> 5 [] c = "6" -> 6 [] c = "7" -> 7
      [] c = "8" -> 8 [] c = "9" -> 9

RECURSIVE TrimLeft(_)
TrimLeft(t) == IF t # <<>> /\ Head(t) \in Spaces THEN TrimLeft(Tail(t)) ELSE t

RECURSIVE TrimRight(_)
TrimRight(t) ==
    IF t # <<>> /\ t[Len(t)] \in Spaces THEN TrimRight(SubSeq(t, 1, Len(t) - 1)) ELSE t

TrimSpace(t) == TrimRight(TrimLeft(t))

RECURSIVE DecimalValue(_)
DecimalValue(t) ==
    IF t = <<>> THEN 0 ELSE 10 * DecimalValue(SubSeq(t, 1, Len(t) - 1)) + DigitVal(t[Len(t)])

\* the digits t begins with
RECURSIVE DigitPrefix(_)
DigitPrefix(t) ==
    IF t # <<>> /\ Head(t) \in Digits THEN <<Head(t)>> \o DigitPrefix(Tail(t)) ELSE <<>>

\* Atoi that reads the digits the text begins with and stops at the first
\* other character
Atoi_LeadingDigits(t) == [n |-> DecimalValue(DigitPrefix(t)), err |-> FALSE]

\* strconv.Atoi on a text of fewer than 19 characters: an optional sign and
\* one or more decimal digits; (0, error) on anything else.
Atoi(t) ==
    LET signed == t # <<>> /\ Head(t) \in {"-", "+"}
        body == IF signed THEN Tail(t) ELSE t
        ok == body # <<>> /\ \A i \in DOMAIN body : body[i] \in Digits
    IN  [n |-> IF ~ok THEN 0 ELSE IF signed /\ Head(t) = "-" THEN 0 - DecimalValue(body)
                                  ELSE DecimalValue(body),
         err |-> ~ok]

\* AggregateReport.DateBegin / DateEnd: the error of Atoi is dropped; the
\* time.Time is represented by its Unix seconds.
DateOf(text) == Atoi(TrimSpace(text)).n

(***************************************************************************)
(* time.Time.UTC().Format("2006-01-02 03:04:05"): the layout's 03 is the   *)
(* hour on the 12-hour clock. The text is represented by its six fields.   *)
(* CivilUTC is the UTC date and time of day of a Unix time.                *)
(***************************************************************************)
Hour12(h) == IF h % 12 = 0 THEN 12 ELSE h % 12

CivilUTC(ts) ==
    LET days == ts \div 86400
        secs == ts % 86400
        z == days + 719468
        era == z \div 146097
        doe == z - era * 146097
        yoe == (doe - doe \div 1460 + doe \div 36524 - doe \div 146096) \div 365
        doy == doe - (365 * yoe + yoe \div 4 - yoe \div 100)
        mp == (5 * doy + 2) \div 153
        d == doy - (153 * mp + 2) \div 5 + 1
        m == IF mp < 10 THEN mp + 3 ELSE mp - 9
        y == yoe + era * 400 + (IF m <= 2 THEN 1 ELSE 0)
    IN  <<y, m, d, secs \div 3600, (secs % 3600) \div 60, secs % 60>>

FormatDate(ts) == [CivilUTC(ts) EXCEPT ![4] = Hour12(@)]

(***************************************************************************)
(* Records and rows.                                                       *)
(***************************************************************************)
HeaderFroms == {"example.com", "example.org"}

Counts == 0..MaxCount

Dispositions == {"none", "quarantine", "reject"}

Evals == {"pass", "fail"}

\* the records an XML document can hold: every token may be outside its
\* enumeration
AnyRecord ==
    [HeaderFrom : HeaderFroms, Count : Counts,
     Disposition : Dispositions \cup {"foo"},
     EvalDKIM : Evals \cup {"neutral"}, EvalSPF : Evals \cup {"softfail"}]

ValidRecord(rec) ==
    /\ rec.Disposition \in Dispositions
    /\ rec.EvalDKIM \in Evals
    /\ rec.EvalSPF \in Evals

\* &ReportRow{HeaderFrom: rec.HeaderFrom}
NewRow(h) ==
    [HeaderFrom |-> h, DKIMPass |-> 0, DKIMFail |-> 0, SPFPass |-> 0, SPFFail |-> 0,
     PolicyNone |-> 0, PolicyQuarantine |-> 0, PolicyReject |-> 0]

\* LookupRow without the test of ok: a new row on every call
LookupRow_AlwaysNew(domains, h) ==
    [g \in DOMAIN domains \cup {h} |-> IF g = h THEN NewRow(h) ELSE domains[g]]

\* r.Domains[rec.HeaderFrom], the row created on first occurrence
LookupRow(domains, h) ==
    IF h \in DOMAIN domains THEN domains ELSE domains @@ (h :> NewRow(h))

\* switch rec.Disposition: the default case is fatal and adds nothing
AddDisposition(d, rec) ==
    LET h == rec.HeaderFrom
    IN  CASE rec.Disposition = "none" -> [d EXCEPT ![h].PolicyNone = @ + rec.Count]
          [] rec.Disposition = "quarantine" -> [d EXCEPT ![h].PolicyQuarantine = @ + rec.Count]
          [] rec.Disposition = "reject" -> [d EXCEPT ![h].PolicyReject = @ + rec.Count]
          [] OTHER -> d

\* AddDKIM with the count added to both counters
AddDKIM_Both(d, rec) ==
    LET h == rec.HeaderFrom
    IN  IF rec.EvalDKIM \in Evals
        THEN [d EXCEPT ![h].DKIMPass = @ + rec.Count, ![h].DKIMFail = @ + rec.Count]
        ELSE d

\* switch rec.EvalDKIM
AddDKIM(d, rec) ==
    LET h == rec.HeaderFrom
    IN  CASE rec.EvalDKIM = "pass" -> [d EXCEPT ![h].DKIMPass = @ + rec.Count]
          [] rec.EvalDKIM = "fail" -> [d EXCEPT ![h].DKIMFail = @ + rec.Count]
          [] OTHER -> d

\* switch rec.EvalSPF
AddSPF(d, rec) ==
    LET h == rec.HeaderFrom
    IN  CASE rec.EvalSPF = "pass" -> [d EXCEPT ![h].SPFPass = @ + rec.Count]
          [] rec.EvalSPF = "fail" -> [d EXCEPT ![h].SPFFail = @ + rec.Count]
          [] OTHER -> d

\* Add without the default case of the DKIM switch
Add_DKIMUnchecked(domains, rec) ==
    LET d0 == LookupRow(domains, rec.HeaderFrom)
        d1 == AddDisposition(d0, rec)
        d2 == AddDKIM(d1, rec)
        d3 == AddSPF(d2, rec)
    IN  IF rec.Disposition \notin Dispositions THEN [Domains |-> d0, fatal |-> TRUE]
        ELSE IF rec.EvalSPF \notin Evals THEN [Domains |-> d2, fatal |-> TRUE]
        ELSE [Domains |-> d3, fatal |-> FALSE]

\* Report.Add: looks the row of rec.HeaderFrom up, then runs the three
\* switches in order; log.Fatalf ends the process in the default case of a
\* switch, after the earlier switches have updated the row.
Add(domains, rec) ==
    LET d0 == LookupRow(domains, rec.HeaderFrom)
        d1 == AddDisposition(d0, rec)
        d2 == AddDKIM(d1, rec)
        d3 == AddSPF(d2, rec)
    IN  IF rec.Disposition \notin Dispositions THEN [Domains |-> d0, fatal |-> TRUE]
        ELSE IF rec.EvalDKIM \notin Evals THEN [Domains |-> d1, fatal |-> TRUE]
        ELSE IF rec.EvalSPF \notin Evals THEN [Domains |-> d2, fatal |-> TRUE]
        ELSE [Domains |-> d3, fatal |-> FALSE]

\* make(map[string]*ReportRow)
EmptyDomains == [h \in {} |-> NewRow(h)]

\* the loop of parse over fb.Records: Add on every record in order, stopping
\* at the first log.Fatalf
RECURSIVE AddFrom(_, _)
AddFrom(domains, recs) ==
    IF recs = <<>> THEN [Domains |-> domains, fatal |-> FALSE]
    ELSE LET r == Add(domains, Head(recs))
         IN  IF r.fatal THEN r ELSE AddFrom(r.Domains, Tail(recs))

AddAll(recs) == AddFrom(EmptyDomains, recs)

(***************************************************************************)
(* The comparators of the three sort orders. a and b are Reports; the      *)
(* DateBegin of a Report is its Unix seconds, so Before is < and Equal     *)
(* is =.                                                                   *)
(***************************************************************************)
ByOrganizationLess(a, b) ==
    IF a.Organization = b.Organization THEN a.DateBegin < b.DateBegin
    ELSE StrLess(a.Organization, b.Organization)

\* ByDomain.Less with the tie broken the other way round
ByDomainLess_TieAfter(a, b) ==
    IF a.Domain = b.Domain THEN b.DateBegin < a.DateBegin
    ELSE StrLess(a.Domain, b.Domain)

ByDomainLess(a, b) ==
    IF a.Domain = b.Domain THEN a.DateBegin < b.DateBegin
    ELSE StrLess(a.Domain, b.Domain)

\* ByDate.Less without the tie-break on Organization
ByDateLess_NoTieBreak(a, b) == a.DateBegin < b.DateBegin

ByDateLess(a, b) ==
    IF a.DateBegin = b.DateBegin THEN StrLess(a.Organization, b.Organization)
    ELSE a.DateBegin < b.DateBegin

SortOrders == {"date", "domain", "organization"}

\* the comparator the switch on *sortOrder selects
Less(order, a, b) ==
    CASE order = "date" -> ByDateLess(a, b)
      [] order = "domain" -> ByDomainLess(a, b)
      [] order = "organization" -> ByOrganizationLess(a, b)

\* what sort.Sort leaves: no element is Less than an element before it
IsSorted(order, s) == \A i, j \in DOMAIN s : i < j => ~Less(order, s[j], s[i])

\* sort.Sort is not stable: every sorted arrangement of s is an outcome
SortOutcomes(order, s) ==
    {q \in Arrangements(s) : IsSorted(order, q)}

(***************************************************************************)
(* Documents. ok is whether xml.Decode succeeds on the stream.             *)
(***************************************************************************)
Rec(h, c, disp, dkim, spf) ==
    [HeaderFrom |-> h, Count |-> c, Disposition |-> disp, EvalDKIM |-> dkim, EvalSPF |-> spf]

Doc(org, dom, begin, end, recs) ==
    [ok |-> TRUE, Organization |-> org, Domain |-> dom, DateRangeBegin |-> begin,
     DateRangeEnd |-> end, Records |-> recs]

\* organization "a", domain "x", begins at 1; two records of one destination
DocA1 ==
    Doc(<<97>>, <<120>>, <<"1">>, <<"2">>,
        <<Rec("example.com", 1, "none", "pass", "pass"),
          Rec("example.com", 1, "reject", "fail", "fail")>>)

\* organization "ab", domain "y", begins at 1; two destinations
DocAB1 ==
    Doc(<<97, 98>>, <<121>>, <<" ", "1", "\n">>, <<"2">>,
        <<Rec("example.com", 1, "quarantine", "fail", "pass"),
          Rec("example.org", 0, "none", "pass", "fail")>>)

\* organization "a", domain "y", begins at 2; no record
DocA2 == Doc(<<97>>, <<121>>, <<"2">>, <<"3">>, <<>>)

\* organization "a", domain "y", begins at 1: DocA1 but for the domain
DocA1y ==
    Doc(<<97>>, <<121>>, <<"1">>, <<"2">>, <<Rec("example.org", 1, "none", "pass", "pass")>>)

\* a record whose disposition is outside {none, quarantine, reject}
DocBadDisposition ==
    Doc(<<98>>, <<121>>, <<"1">>, <<"2">>, <<Rec("example.com", 1, "foo", "pass", "pass")>>)

\* a second record whose DKIM token is outside {pass, fail}
DocBadDKIM ==
    Doc(<<98>>, <<121>>, <<"1">>, <<"2">>,
        <<Rec("example.com", 1, "none", "pass", "pass"),
          Rec("example.com", 1, "none", "neutral", "pass")>>)

\* a record whose SPF token is outside {pass, fail}
DocBadSPF ==
    Doc(<<98>>, <<121>>, <<"1">>, <<"2">>,
        <<Rec("example.org", 1, "reject", "fail", "softfail")>>)

\* a stream that is no XML document
DocMalformed ==
    [ok |-> FALSE, Organization |-> <<>>, Domain |-> <<>>, DateRangeBegin |-> <<>>,
     DateRangeEnd |-> <<>>, Records |-> <<>>]

\* a document whose date-range texts are drawn: organization "d", domain
\* "z", one record
DocDrawn(texts) ==
    Doc(<<100>>, <<122>>, texts[1], texts[2],
        <<Rec("example.com", 1, "none", "pass", "pass")>>)

\* the begin and end texts of the date range in the drawn document
VARIABLE dates

\* the streams of the model, by name, and the document each holds
DocNames ==
    {"A1", "AB1", "A2", "A1y", "BadDisposition", "BadDKIM", "BadSPF", "Malformed", "Drawn"}

Content(name) ==
    CASE name = "A1" -> DocA1
      [] name = "AB1" -> DocAB1
      [] name = "A2" -> DocA2
      [] name = "A1y" -> DocA1y
      [] name = "BadDisposition" -> DocBadDisposition
      [] name = "BadDKIM" -> DocBadDKIM
      [] name = "BadSPF" -> DocBadSPF
      [] name = "Malformed" -> DocMalformed
      [] name = "Drawn" -> DocDrawn(dates)

(***************************************************************************)
(* Input paths. doc names the stream a file holds; canOpen is whether os.Open / zip.OpenReader succeeds,      *)
(* gzipOK whether gzip.NewReader reads a gzip header, members the files of *)
(* a zip archive, each with whether zf.Open succeeds.                      *)
(***************************************************************************)
Plain(d) == [kind |-> "plain", canOpen |-> TRUE, gzipOK |-> TRUE, doc |-> d, members |-> <<>>]

Gz(d) == [kind |-> "gz", canOpen |-> TRUE, gzipOK |-> TRUE, doc |-> d, members |-> <<>>]

Zip(ms) ==
    [kind |-> "zip", canOpen |-> TRUE, gzipOK |-> TRUE, doc |-> "Malformed", members |-> ms]

Member(d) == [canOpen |-> TRUE, doc |-> d]

\* the file system: what each path of the model holds. The suffix of the
\* path is what strings.HasSuffix tests.
Paths ==
    {"a1.xml", "ab1.xml", "a1y.xml", "baddisposition.xml", "baddkim.xml", "badspf.xml",
     "malformed.xml", "missing.xml",
     "a2.xml.gz", "missing.xml.gz", "notgzip.xml.gz",
     "two.zip", "brokenmember.zip", "missing.zip"}

File(path) ==
    CASE path = "a1.xml" -> Plain("A1")
      [] path = "ab1.xml" -> Plain("AB1")
      [] path = "a1y.xml" -> Plain("A1y")
      [] path = "baddisposition.xml" -> Plain("BadDisposition")
      [] path = "baddkim.xml" -> Plain("BadDKIM")
      [] path = "badspf.xml" -> Plain("BadSPF")
      [] path = "malformed.xml" -> Plain("Malformed")
      [] path = "missing.xml" -> [Plain("Malformed") EXCEPT !.canOpen = FALSE]
      [] path = "a2.xml.gz" -> Gz("A2")
      [] path = "missing.xml.gz" -> [Gz("Malformed") EXCEPT !.canOpen = FALSE]
      [] path = "notgzip.xml.gz" -> [Gz("Malformed") EXCEPT !.gzipOK = FALSE]
      [] path = "two.zip" -> Zip(<<Member("A2"), Member("AB1")>>)
      [] path = "brokenmember.zip" ->
             Zip(<<Member("A1"), [Member("Malformed") EXCEPT !.canOpen = FALSE]>>)
      [] path = "missing.zip" -> [Zip(<<>>) EXCEPT !.canOpen = FALSE]
      [] path = "one.zip" -> Zip(<<Member("A1y")>>)
      [] path = "drawn.xml" -> Plain("Drawn")
      [] path = "drawn.xml.gz" -> Gz("Drawn")
      [] path = "drawn.zip" -> Zip(<<Member("Drawn")>>)

ArgLists == UNION {[1..n -> Paths] : n \in 0..MaxFiles}

(***************************************************************************)
(* State.                                                                  *)
(***************************************************************************)
VARIABLES
    args,       \* flag.Args(): the input paths
    sortOrder,  \* *sortOrder, the value of --sort
    mpc,        \* where main is
    idx,        \* the index in args of the path main handles next
    zidx,       \* in a zip archive, the index of the member main opens next
    wg,         \* the counter of the sync.WaitGroup
    workers,    \* the ingestion goroutines, in the order main started them
    out,        \* the buffer of the channel out
    closed,     \* whether close(out) has run
    cpc,        \* where the collector goroutine is
    reports,    \* the collector's slice reports
    emitIdx,    \* the index in reports of the Report formatted next
    output,     \* the lines written to standard output
    diag,       \* the lines log.Printf has written
    aborted,    \* whether log.Fatal has ended the process
    printfLock, \* lock-based revisions: the goroutine that holds printfLock, or 0
    aRecs,      \* aggregation loop: the records handed to Add so far
    aDomains,   \* aggregation loop: report.Domains
    aPrev,      \* aggregation loop: report.Domains before the last Add
    aFatal      \* aggregation loop: whether Add has called log.Fatalf

pipeVars ==
    <<args, dates, printfLock, sortOrder, mpc, idx, zidx, wg, workers, out, closed, cpc, reports, emitIdx,
      output, diag, aborted>>

addVars == <<aRecs, aDomains, aPrev, aFatal>>

vars == <<pipeVars, addVars>>

\* make(chan *Report, 100)
QueueCap == 100

HeaderLine == [kind |-> "header"]

\* one line of Report.Format
DataLine(r, row) ==
    [kind |-> "data", DateBegin |-> FormatDate(r.DateBegin), DateEnd |-> FormatDate(r.DateEnd),
     Organization |-> r.Organization, Domain |-> r.Domain, HeaderFrom |-> row.HeaderFrom,
     PolicyNone |-> row.PolicyNone, PolicyQuarantine |-> row.PolicyQuarantine,
     PolicyReject |-> row.PolicyReject, SPFPass |-> row.SPFPass, DKIMPass |-> row.DKIMPass,
     SPFFail |-> row.SPFFail, DKIMFail |-> row.DKIMFail]

\* Format with a zero-filled line for a Report without rows
FormatOutcomes_ZeroLine(r) ==
    LET keys == DOMAIN r.Domains
        n == Cardinality(keys)
        orders == {p \in [1..n -> keys] : \A i, j \in 1..n : i # j => p[i] # p[j]}
    IN  IF keys = {} THEN {<<DataLine(r, NewRow(""))>>}
        ELSE {[i \in 1..n |-> DataLine(r, r.Domains[p[i]])] : p \in orders}

\* Report.Format: one line per entry of r.Domains, in the order the range
\* over the map yields them, which Go leaves unspecified
FormatOutcomes(r) ==
    LET keys == DOMAIN r.Domains
        n == Cardinality(keys)
        orders == {p \in [1..n -> keys] : \A i, j \in 1..n : i # j => p[i] # p[j]}
    IN  {[i \in 1..n |-> DataLine(r, r.Domains[p[i]])] : p \in orders}

\* nothing has run yet
Fresh ==
    /\ mpc = "start"
    /\ printfLock = 0
    /\ idx = 1
    /\ zidx = 1
    /\ wg = 0
    /\ workers = <<>>
    /\ out = <<>>
    /\ closed = FALSE
    /\ cpc = "unstarted"
    /\ reports = <<>>
    /\ emitIdx = 1
    /\ output = <<>>
    /\ diag = <<>>
    /\ aborted = FALSE
    /\ aRecs = <<>>
    /\ aDomains = EmptyDomains
    /\ aPrev = EmptyDomains
    /\ aFatal = FALSE

Init ==
    /\ args \in ArgLists
    /\ sortOrder \in SortOrders \cup {"size"}
    /\ dates = <<<<"1">>, <<"2">>>>
    /\ Fresh

\* the start of a run on up to MaxFiles paths of paths and a --sort value
\* of orders
InitOn(paths, orders) ==
    /\ args \in UNION {[1..n -> paths] : n \in 0..MaxFiles}
    /\ sortOrder \in orders
    /\ dates = <<<<"1">>, <<"2">>>>
    /\ Fresh

(***************************************************************************)
(* main.                                                                   *)
(***************************************************************************)
\* wg.Add(1); go func() { parse(r, out); f.Close(); wg.Done() }()
Launch(d) ==
    /\ wg' = wg + 1
    /\ workers' = Append(workers, [pc |-> "parse", doc |-> d])

\* main up to the ingestion loop: prints the header, makes the channels and
\* starts the collector goroutine
MainStart ==
    /\ ~aborted /\ mpc = "start"
    /\ output' = Append(output, HeaderLine)
    /\ cpc' = "recv"
    /\ mpc' = "loop"
    /\ UNCHANGED <<args, dates, printfLock, sortOrder, idx, zidx, wg, workers, out, closed, reports, emitIdx,
                   diag, aborted, addVars>>

\* one iteration of the loop on a path that ends in .gz
OpenGz ==
    /\ ~aborted /\ mpc = "loop" /\ idx <= Len(args) /\ File(args[idx]).kind = "gz"
    /\ idx' = idx + 1
    /\ IF ~File(args[idx]).canOpen
       THEN diag' = Append(diag, <<"failed to open file", idx>>) /\ UNCHANGED <<wg, workers>>
       ELSE IF ~File(args[idx]).gzipOK
       THEN /\ diag' = Append(diag, <<"failed to read gzip stream", idx>>)
            /\ UNCHANGED <<wg, workers>>
       ELSE Launch(File(args[idx]).doc) /\ UNCHANGED diag
    /\ UNCHANGED <<args, dates, printfLock, sortOrder, mpc, zidx, out, closed, cpc, reports, emitIdx, output,
                   aborted, addVars>>

\* one iteration of the loop on a path that ends in .zip, up to the loop
\* over the archive's files
OpenZip ==
    /\ ~aborted /\ mpc = "loop" /\ idx <= Len(args) /\ File(args[idx]).kind = "zip"
    /\ IF ~File(args[idx]).canOpen
       THEN aborted' = TRUE /\ UNCHANGED <<mpc, zidx>>
       ELSE mpc' = "zip" /\ zidx' = 1 /\ UNCHANGED aborted
    /\ UNCHANGED <<args, dates, printfLock, sortOrder, idx, wg, workers, out, closed, cpc, reports, emitIdx,
                   output, diag, addVars>>

\* one iteration of the loop over the files of the archive args[idx], or
\* its end
ZipMember ==
    /\ ~aborted /\ mpc = "zip"
    /\ IF zidx > Len(File(args[idx]).members)
       THEN /\ mpc' = "loop" /\ idx' = idx + 1
            /\ UNCHANGED <<zidx, wg, workers, aborted>>
       ELSE IF ~File(args[idx]).members[zidx].canOpen
       THEN aborted' = TRUE /\ UNCHANGED <<mpc, idx, zidx, wg, workers>>
       ELSE /\ Launch(File(args[idx]).members[zidx].doc)
            /\ zidx' = zidx + 1
            /\ UNCHANGED <<mpc, idx, aborted>>
    /\ UNCHANGED <<args, dates, printfLock, sortOrder, out, closed, cpc, reports, emitIdx, output, diag, addVars>>

\* OpenPlain without the continue after the failed open
OpenPlain_NoContinue ==
    /\ ~aborted /\ mpc = "loop" /\ idx <= Len(args) /\ File(args[idx]).kind = "plain"
    /\ idx' = idx + 1
    /\ IF ~File(args[idx]).canOpen
       THEN diag' = Append(diag, <<"failed to open file", idx>>)
       ELSE UNCHANGED diag
    /\ Launch(File(args[idx]).doc)
    /\ UNCHANGED <<args, dates, printfLock, sortOrder, mpc, zidx, out, closed, cpc, reports, emitIdx, output,
                   aborted, addVars>>

\* one iteration of the loop on any other path
OpenPlain ==
    /\ ~aborted /\ mpc = "loop" /\ idx <= Len(args) /\ File(args[idx]).kind = "plain"
    /\ idx' = idx + 1
    /\ IF ~File(args[idx]).canOpen
       THEN diag' = Append(diag, <<"failed to open file", idx>>) /\ UNCHANGED <<wg, workers>>
       ELSE Launch(File(args[idx]).doc) /\ UNCHANGED diag
    /\ UNCHANGED <<args, dates, printfLock, sortOrder, mpc, zidx, out, closed, cpc, reports, emitIdx, output,
                   aborted, addVars>>

\* MainClose without the wg.Wait()
MainClose_NoWait ==
    /\ ~aborted /\ mpc = "loop" /\ idx > Len(args)
    /\ closed' = TRUE
    /\ mpc' = "exit"
    /\ UNCHANGED <<args, dates, printfLock, sortOrder, idx, zidx, wg, workers, out, cpc, reports, emitIdx,
                   output, diag, aborted, addVars>>

\* MainClose without the close(out)
MainClose_NoClose ==
    /\ ~aborted /\ mpc = "loop" /\ idx > Len(args)
    /\ wg = 0
    /\ mpc' = "exit"
    /\ UNCHANGED <<args, dates, printfLock, sortOrder, idx, zidx, wg, workers, out, closed, cpc, reports,
                   emitIdx, output, diag, aborted, addVars>>

\* wg.Wait() returns; close(out)
MainClose ==
    /\ ~aborted /\ mpc = "loop" /\ idx > Len(args)
    /\ wg = 0
    /\ closed' = TRUE
    /\ mpc' = "exit"
    /\ UNCHANGED <<args, dates, printfLock, sortOrder, idx, zidx, wg, workers, out, cpc, reports, emitIdx,
                   output, diag, aborted, addVars>>

\* exit <- 1 in the collector meets <-exit in main; main returns
MainExit ==
    /\ ~aborted /\ mpc = "exit"
    /\ cpc = "emit" /\ emitIdx > Len(reports)
    /\ mpc' = "done"
    /\ cpc' = "done"
    /\ UNCHANGED <<args, dates, printfLock, sortOrder, idx, zidx, wg, workers, out, closed, reports, emitIdx,
                   output, diag, aborted, addVars>>

(***************************************************************************)
(* An ingestion goroutine.                                                 *)
(***************************************************************************)
\* the Report parse builds from the decoded document d and the Domains its
\* records add up to
NewReport(d, domains) ==
    [DateBegin |-> DateOf(d.DateRangeBegin), DateEnd |-> DateOf(d.DateRangeEnd),
     Domains |-> domains, Organization |-> d.Organization, Domain |-> d.Domain]

\* the Report of a document whose records are all valid
Aggregate(name) == NewReport(Content(name), AddAll(Content(name).Records).Domains)

\* go func() { parse(r, out); f.Close(); wg.Done() }(): parse decodes, builds
\* the Report, adds every record and sends the Report on the channel, and
\* the goroutine then leaves the WaitGroup. log.Fatal on a decode error and
\* log.Fatalf in Add on a token outside its enumeration end the process
\* before the send. The send waits while the buffer is full.
IngestAt(w, capacity) ==
    /\ ~aborted /\ mpc # "done" /\ w \in DOMAIN workers /\ workers[w].pc = "parse"
    /\ LET d == Content(workers[w].doc)
           r == AddAll(d.Records)
       IN  IF ~d.ok \/ r.fatal
           THEN aborted' = TRUE /\ UNCHANGED <<workers, out, wg>>
           ELSE /\ Len(out) < capacity
                /\ out' = Append(out, NewReport(d, r.Domains))
                /\ workers' = [workers EXCEPT ![w].pc = "done"]
                /\ wg' = wg - 1
                /\ UNCHANGED aborted
    /\ UNCHANGED <<args, dates, printfLock, sortOrder, mpc, idx, zidx, closed, cpc, reports, emitIdx,
                   output, diag, addVars>>

\* the goroutine on the channel main makes
Ingest(w) == IngestAt(w, QueueCap)

(***************************************************************************)
(* The collector goroutine.                                                *)
(***************************************************************************)
\* Recv with an assignment in place of the append
Recv_Overwrite ==
    /\ ~aborted /\ cpc = "recv"
    /\ out # <<>>
    /\ reports' = <<Head(out)>>
    /\ out' = Tail(out)
    /\ UNCHANGED <<args, dates, printfLock, sortOrder, mpc, idx, zidx, wg, workers, closed, cpc, emitIdx,
                   output, diag, aborted, addVars>>

\* Recv with the Report formatted as soon as it is received
Recv_FormatOnReceive ==
    /\ ~aborted /\ cpc = "recv"
    /\ out # <<>>
    /\ reports' = Append(reports, Head(out))
    /\ out' = Tail(out)
    /\ \E lines \in FormatOutcomes(Head(out)) : output' = output \o lines
    /\ UNCHANGED <<args, dates, printfLock, sortOrder, mpc, idx, zidx, wg, workers, closed,
                   cpc, emitIdx, diag, aborted, addVars>>

\* one iteration of for r := range out
Recv ==
    /\ ~aborted /\ cpc = "recv"
    /\ out # <<>>
    /\ reports' = Append(reports, Head(out))
    /\ out' = Tail(out)
    /\ UNCHANGED <<args, dates, printfLock, sortOrder, mpc, idx, zidx, wg, workers, closed, cpc, emitIdx,
                   output, diag, aborted, addVars>>

\* the range loop ends on the closed, drained channel; the switch on
\* *sortOrder sorts, or is fatal on an unknown option
Sort ==
    /\ ~aborted /\ cpc = "recv"
    /\ out = <<>> /\ closed
    /\ IF sortOrder \in SortOrders
       THEN /\ reports' \in SortOutcomes(sortOrder, reports)
            /\ cpc' = "emit"
            /\ emitIdx' = 1
            /\ UNCHANGED aborted
       ELSE aborted' = TRUE /\ UNCHANGED <<reports, cpc, emitIdx>>
    /\ UNCHANGED <<args, dates, printfLock, sortOrder, mpc, idx, zidx, wg, workers, out, closed, output, diag,
                   addVars>>

\* Emit with the header before the lines of every Report
Emit_RepeatHeader ==
    /\ ~aborted /\ cpc = "emit" /\ emitIdx <= Len(reports)
    /\ \E lines \in FormatOutcomes(reports[emitIdx]) :
           output' = (output \o <<HeaderLine>>) \o lines
    /\ emitIdx' = emitIdx + 1
    /\ UNCHANGED <<args, dates, printfLock, sortOrder, mpc, idx, zidx, wg, workers, out, closed, cpc,
                   reports, diag, aborted, addVars>>

\* Emit with a Format that deletes the rows it has printed
Emit_ClearRows ==
    /\ ~aborted /\ cpc = "emit" /\ emitIdx <= Len(reports)
    /\ \E lines \in FormatOutcomes(reports[emitIdx]) : output' = output \o lines
    /\ reports' = [reports EXCEPT ![emitIdx].Domains = EmptyDomains]
    /\ emitIdx' = emitIdx + 1
    /\ UNCHANGED <<args, dates, printfLock, sortOrder, mpc, idx, zidx, wg, workers, out, closed, cpc,
                   diag, aborted, addVars>>

\* one iteration of for _, r := range reports: r.Format()
Emit ==
    /\ ~aborted /\ cpc = "emit" /\ emitIdx <= Len(reports)
    /\ \E lines \in FormatOutcomes(reports[emitIdx]) : output' = output \o lines
    /\ emitIdx' = emitIdx + 1
    /\ UNCHANGED <<args, dates, printfLock, sortOrder, mpc, idx, zidx, wg, workers, out, closed, cpc, reports,
                   diag, aborted, addVars>>

Next ==
    \/ MainStart
    \/ OpenGz
    \/ OpenZip
    \/ ZipMember
    \/ OpenPlain
    \/ MainClose
    \/ MainExit
    \/ \E w \in DOMAIN workers : Ingest(w)
    \/ Recv
    \/ Sort
    \/ Emit

Spec == Init /\ [][Next]_vars

(***************************************************************************)
(* The aggregation loop of parse on the records of one document,           *)
(*     for _, rec := range fb.Records { report.Add(rec) }                  *)
(* one Report.Add call per step; the records are the document's, drawn     *)
(* one at a time. log.Fatalf ends the loop.                                *)
(***************************************************************************)
AddCallOn(records) ==
    /\ ~aFatal /\ Len(aRecs) < MaxRecs
    /\ \E rec \in records :
           LET r == Add(aDomains, rec)
           IN  /\ aRecs' = Append(aRecs, rec)
               /\ aPrev' = aDomains
               /\ aDomains' = r.Domains
               /\ aFatal' = r.fatal
    /\ UNCHANGED pipeVars

AddCall == AddCallOn(AnyRecord)

InitAdd == Init /\ args = <<>> /\ sortOrder = "date"

NextAdd == AddCall

SpecAdd == InitAdd /\ [][NextAdd]_vars

(***************************************************************************)
(* The aggregation loop on records whose count field, an int64 that the    *)
(* decoder fills from the text of <count> and nothing validates, may be    *)
(* negative. The tokens are those of the switches.                         *)
(***************************************************************************)
SignedCounts == (0 - MaxCount)..MaxCount

SignedRecord ==
    [HeaderFrom : {"example.com"}, Count : SignedCounts, Disposition : Dispositions,
     EvalDKIM : Evals, EvalSPF : Evals]

AddSigned == AddCallOn(SignedRecord)

NextSigned == AddSigned

SpecSigned == InitAdd /\ [][NextSigned]_vars

(***************************************************************************)
(* The pipeline with the channel's capacity scaled down to ScaledCap, on    *)
(* paths that all open and hold valid documents and a --sort value of the  *)
(* switch, so that a send finds the buffer full.                           *)
(***************************************************************************)
ValidPaths == {"a1.xml", "ab1.xml", "a2.xml.gz", "one.zip"}

InitScaled == InitOn(ValidPaths, SortOrders)

IngestScaled(w) == IngestAt(w, ScaledCap)

NextScaled ==
    \/ MainStart
    \/ OpenGz
    \/ OpenZip
    \/ ZipMember
    \/ OpenPlain
    \/ MainClose
    \/ MainExit
    \/ \E w \in DOMAIN workers : IngestScaled(w)
    \/ Recv
    \/ Sort
    \/ Emit

\* the Go scheduler: while some goroutine can take a step, one does
Fairness == WF_vars(NextScaled)

SpecScaled == InitScaled /\ [][NextScaled]_vars /\ Fairness

(***************************************************************************)
(* The pipeline with every ingestion goroutine taken statement by          *)
(* statement: parse up to its send, the send, and the wg.Done() that       *)
(* follows the return of parse. A goroutine that has built its Report      *)
(* holds it in report. A send on a closed channel panics.                  *)
(***************************************************************************)
StepPaths ==
    {"a1.xml", "ab1.xml", "a2.xml.gz", "one.zip", "baddkim.xml", "malformed.xml",
     "missing.xml"}

InitSteps == InitOn(StepPaths, SortOrders \cup {"size"})

\* parse from the decoding to the end of the loop over the records
Decode(w) ==
    /\ ~aborted /\ mpc # "done" /\ workers[w].pc = "parse"
    /\ LET d == Content(workers[w].doc)
           r == AddAll(d.Records)
       IN  IF ~d.ok \/ r.fatal
           THEN aborted' = TRUE /\ UNCHANGED workers
           ELSE /\ workers' = [workers EXCEPT ![w] =
                                  [pc |-> "send", doc |-> workers[w].doc,
                                   report |-> NewReport(d, r.Domains)]]
                /\ UNCHANGED aborted
    /\ UNCHANGED <<args, dates, printfLock, sortOrder, mpc, idx, zidx, wg, out, closed, cpc, reports,
                   emitIdx, output, diag, addVars>>

\* response <- report
Send(w) ==
    /\ ~aborted /\ mpc # "done" /\ workers[w].pc = "send"
    /\ IF closed
       THEN aborted' = TRUE /\ UNCHANGED <<workers, out>>
       ELSE /\ Len(out) < QueueCap
            /\ out' = Append(out, workers[w].report)
            /\ workers' = [workers EXCEPT ![w].pc = "sent"]
            /\ UNCHANGED aborted
    /\ UNCHANGED <<args, dates, printfLock, sortOrder, mpc, idx, zidx, wg, closed, cpc, reports, emitIdx,
                   output, diag, addVars>>

\* parse has returned: f.Close(); wg.Done()
Done(w) ==
    /\ ~aborted /\ mpc # "done" /\ workers[w].pc = "sent"
    /\ workers' = [workers EXCEPT ![w].pc = "done"]
    /\ wg' = wg - 1
    /\ UNCHANGED <<args, dates, printfLock, sortOrder, mpc, idx, zidx, out, closed, cpc, reports, emitIdx,
                   output, diag, aborted, addVars>>

NextSteps ==
    \/ MainStart
    \/ OpenGz
    \/ OpenZip
    \/ ZipMember
    \/ OpenPlain
    \/ MainClose
    \/ MainExit
    \/ \E w \in DOMAIN workers : Decode(w)
    \/ \E w \in DOMAIN workers : Send(w)
    \/ \E w \in DOMAIN workers : Done(w)
    \/ Recv
    \/ Sort
    \/ Emit

SpecSteps == InitSteps /\ [][NextSteps]_vars

(***************************************************************************)
(* The lock-based revision (src/main.go:225-327). There is no collector    *)
(* and no sort: every goroutine decodes its document, adds up the records, *)
(* takes printfLock, prints its rows and, by its deferred calls, releases  *)
(* the lock and then calls wg.Done(). The loop of main over the paths is   *)
(* that of the channel-based revision but for the channel. A goroutine     *)
(* that holds the lock keeps the lines it has yet to print in todo; a line *)
(* carries in by the goroutine that printed it.                            *)
(***************************************************************************)
LockPaths == {"a1.xml", "ab1.xml", "a2.xml.gz", "one.zip", "baddkim.xml", "missing.xml"}

InitLock == InitOn(LockPaths, SortOrders)

\* main up to the loop: prints the header
LockStart ==
    /\ ~aborted /\ mpc = "start"
    /\ output' = Append(output, HeaderLine)
    /\ mpc' = "loop"
    /\ UNCHANGED <<args, dates, printfLock, sortOrder, idx, zidx, wg, workers, out, closed,
                   cpc, reports, emitIdx, diag, aborted, addVars>>

\* wg.Wait() returns and main returns
LockWait ==
    /\ ~aborted /\ mpc = "loop" /\ idx > Len(args)
    /\ wg = 0
    /\ mpc' = "done"
    /\ UNCHANGED <<args, dates, printfLock, sortOrder, idx, zidx, wg, workers, out, closed,
                   cpc, reports, emitIdx, output, diag, aborted, addVars>>

\* Lock that does not wait for the lock to be free
Lock_NoMutex(w) ==
    /\ ~aborted /\ mpc # "done" /\ workers[w].pc = "send"
    /\ printfLock' = w
    /\ \E lines \in FormatOutcomes(workers[w].report) :
           workers' = [workers EXCEPT ![w] =
                          [pc |-> "print", doc |-> workers[w].doc,
                           report |-> workers[w].report, todo |-> lines]]
    /\ UNCHANGED <<args, dates, sortOrder, mpc, idx, zidx, wg, out, closed, cpc, reports,
                   emitIdx, output, diag, aborted, addVars>>

\* printfLock.Lock(), and the order in which the range over report.Domains
\* will yield the rows
Lock(w) ==
    /\ ~aborted /\ mpc # "done" /\ workers[w].pc = "send"
    /\ printfLock = 0
    /\ printfLock' = w
    /\ \E lines \in FormatOutcomes(workers[w].report) :
           workers' = [workers EXCEPT ![w] =
                          [pc |-> "print", doc |-> workers[w].doc,
                           report |-> workers[w].report, todo |-> lines]]
    /\ UNCHANGED <<args, dates, sortOrder, mpc, idx, zidx, wg, out, closed, cpc, reports,
                   emitIdx, output, diag, aborted, addVars>>

\* one fmt.Printf of the loop over the rows
PrintRow(w) ==
    /\ ~aborted /\ mpc # "done" /\ workers[w].pc = "print"
    /\ workers[w].todo # <<>>
    /\ output' = Append(output, Head(workers[w].todo) @@ [by |-> w])
    /\ workers' = [workers EXCEPT ![w].todo = Tail(@)]
    /\ UNCHANGED <<args, dates, printfLock, sortOrder, mpc, idx, zidx, wg, out, closed, cpc,
                   reports, emitIdx, diag, aborted, addVars>>

\* the loop is over and parse returns: the deferred printfLock.Unlock();
\* the deferred wg.Done() comes next and is the step Done
Unlock(w) ==
    /\ ~aborted /\ mpc # "done" /\ workers[w].pc = "print"
    /\ workers[w].todo = <<>>
    /\ printfLock' = 0
    /\ workers' = [workers EXCEPT ![w].pc = "sent"]
    /\ UNCHANGED <<args, dates, sortOrder, mpc, idx, zidx, wg, out, closed, cpc, reports,
                   emitIdx, output, diag, aborted, addVars>>

NextLock ==
    \/ LockStart
    \/ OpenGz
    \/ OpenZip
    \/ ZipMember
    \/ OpenPlain
    \/ LockWait
    \/ \E w \in DOMAIN workers : Decode(w)
    \/ \E w \in DOMAIN workers : Lock(w)
    \/ \E w \in DOMAIN workers : PrintRow(w)
    \/ \E w \in DOMAIN workers : Unlock(w)
    \/ \E w \in DOMAIN workers : Done(w)

SpecLock == InitLock /\ [][NextLock]_vars

(***************************************************************************)
(* The first lock-based revision (src/main.go:65-110). main opens every    *)
(* path with os.Open whatever its suffix, logs a failure and goes on to    *)
(* wg.Add(1) and go parse(f) all the same, with f the nil *os.File; parse  *)
(* decodes, adds up the counts by disposition, and prints one line under   *)
(* printfLock. A compressed file, or a file that is not open, is a stream  *)
(* xml.Decode fails on. -H is not given.                                   *)
(***************************************************************************)
FirstPaths == {"a1.xml", "ab1.xml", "baddisposition.xml", "missing.xml", "a2.xml.gz"}

InitFirst == InitOn(FirstPaths, {"date"})

\* what parse reads from the f of the path
FirstStream(path) ==
    IF File(path).kind = "plain" /\ File(path).canOpen THEN File(path).doc ELSE "Malformed"

\* one iteration of the loop over flag.Args()
FirstOpen ==
    /\ ~aborted /\ mpc = "loop" /\ idx <= Len(args)
    /\ idx' = idx + 1
    /\ IF ~File(args[idx]).canOpen
       THEN diag' = Append(diag, <<"failed to open file", idx>>)
       ELSE UNCHANGED diag
    /\ Launch(FirstStream(args[idx]))
    /\ UNCHANGED <<args, dates, printfLock, sortOrder, mpc, zidx, out, closed, cpc, reports,
                   emitIdx, output, aborted, addVars>>

\* the sum of the counts of the records of disposition disp
RECURSIVE SumDisposition(_, _)
SumDisposition(recs, disp) ==
    IF recs = <<>> THEN 0
    ELSE (IF Head(recs).Disposition = disp THEN Head(recs).Count ELSE 0)
             + SumDisposition(Tail(recs), disp)

\* the line parse prints for the decoded document d
FirstLine(d) ==
    [kind |-> "data", DateBegin |-> FormatDate(DateOf(d.DateRangeBegin)),
     DateEnd |-> FormatDate(DateOf(d.DateRangeEnd)), Organization |-> d.Organization,
     Domain |-> d.Domain, PolicyNone |-> SumDisposition(d.Records, "none"),
     PolicyQuarantine |-> SumDisposition(d.Records, "quarantine"),
     PolicyReject |-> SumDisposition(d.Records, "reject")]

\* parse from the decoding to the end of the loop over the records
FirstDecode(w) ==
    /\ ~aborted /\ mpc # "done" /\ workers[w].pc = "parse"
    /\ LET d == Content(workers[w].doc)
       IN  IF ~d.ok \/ \E i \in DOMAIN d.Records : d.Records[i].Disposition \notin Dispositions
           THEN aborted' = TRUE /\ UNCHANGED workers
           ELSE /\ workers' = [workers EXCEPT ![w] =
                                  [pc |-> "send", doc |-> workers[w].doc,
                                   report |-> FirstLine(d)]]
                /\ UNCHANGED aborted
    /\ UNCHANGED <<args, dates, printfLock, sortOrder, mpc, idx, zidx, wg, out, closed, cpc,
                   reports, emitIdx, output, diag, addVars>>

\* printfLock.Lock()
FirstLock(w) ==
    /\ ~aborted /\ mpc # "done" /\ workers[w].pc = "send"
    /\ printfLock = 0
    /\ printfLock' = w
    /\ workers' = [workers EXCEPT ![w] =
                      [pc |-> "print", doc |-> workers[w].doc,
                       report |-> workers[w].report, todo |-> <<workers[w].report>>]]
    /\ UNCHANGED <<args, dates, sortOrder, mpc, idx, zidx, wg, out, closed, cpc, reports,
                   emitIdx, output, diag, aborted, addVars>>

NextFirst ==
    \/ LockStart
    \/ FirstOpen
    \/ LockWait
    \/ \E w \in DOMAIN workers : FirstDecode(w)
    \/ \E w \in DOMAIN workers : FirstLock(w)
    \/ \E w \in DOMAIN workers : PrintRow(w)
    \/ \E w \in DOMAIN workers : Unlock(w)
    \/ \E w \in DOMAIN workers : Done(w)

SpecFirst == InitFirst /\ [][NextFirst]_vars

(***************************************************************************)
(* The pipeline on one document whose date-range texts are drawn: every    *)
(* text of at most MaxText characters of DateChars for the begin, and a    *)
(* few longer ones.                                                        *)
(***************************************************************************)
DateChars == {"0", "1", "7", "x", " ", "-"}

\* "1700000000", "1699956800" (twelve hours earlier), "43200", "3600"
LongTexts ==
    {<<"1", "7", "0", "0", "0", "0", "0", "0", "0", "0">>,
     <<"1", "6", "9", "9", "9", "5", "6", "8", "0", "0">>,
     <<"4", "3", "2", "0", "0">>,
     <<"3", "6", "0", "0">>}

BeginTexts == LongTexts \cup UNION {[1..n -> DateChars] : n \in 0..MaxText}

EndTexts == LongTexts \cup {<<>>, <<"0">>, <<"x">>}

DrawnPaths == {"drawn.xml", "drawn.xml.gz", "drawn.zip"}

InitDrawn ==
    /\ args \in {<<path>> : path \in DrawnPaths}
    /\ sortOrder = "date"
    /\ dates \in BeginTexts \X EndTexts
    /\ Fresh

SpecDrawn == InitDrawn /\ [][Next]_vars

(***************************************************************************)
(* What the properties speak of.                                           *)
(***************************************************************************)
\* main skips the path: a plain or gzip file that cannot be opened, or a
\* gzip file whose header cannot be read
Skipped(path) ==
    LET f == File(path)
    IN  f.kind \in {"plain", "gz"} /\ (~f.canOpen \/ (f.kind = "gz" /\ ~f.gzipOK))

\* the streams of a path whose every open succeeds, by document name
StreamsOf(path) ==
    LET f == File(path)
    IN  IF Skipped(path) \/ ~f.canOpen THEN <<>>
        ELSE IF f.kind = "zip" THEN [i \in DOMAIN f.members |-> f.members[i].doc]
        ELSE <<f.doc>>

\* the streams of the first k arguments, in the order main opens them
RECURSIVE StreamsUpTo(_)
StreamsUpTo(k) == IF k = 0 THEN <<>> ELSE StreamsUpTo(k - 1) \o StreamsOf(args[k])

AllStreams == StreamsUpTo(Len(args))

\* the aggregates of the streams in ss
AggregatesOf(ss) == [i \in DOMAIN ss |-> Aggregate(ss[i])]

\* the collector holds its final sequence: the channel is closed and drained
Collected == closed /\ out = <<>>

\* the sorter has handed reports to the emitter
Sorted == cpc \in {"emit", "done"}

LexLeq(a, b) == a = b \/ StrLess(a, b)

DataLines == {i \in DOMAIN output : output[i].kind = "data"}

(***************************************************************************)
(* C1. When the channel is closed and drained, the collector's sequence    *)
(* holds exactly one aggregate per ingested stream: as many aggregates as  *)
(* streams, each stream's aggregate as often as the stream was given, in   *)
(* whatever order the goroutines delivered.                                *)
(***************************************************************************)
C1_OnePerStream ==
    Collected =>
        /\ Len(reports) = Len(AllStreams)
        /\ SameBag(reports, AggregatesOf(AllStreams))

\* three streams are collected, and the one main started last arrived first
C1_Witness ==
    /\ Collected /\ cpc = "recv"
    /\ Len(AllStreams) = 3
    /\ Len(reports) = 3
    /\ reports[1] = Aggregate(AllStreams[3])
    /\ reports[1] # Aggregate(AllStreams[1])

(***************************************************************************)
(* C2. With --sort date the sequence handed to the emitter is              *)
(* non-decreasing in DateBegin, and aggregates of equal DateBegin are in   *)
(* ascending lexicographic order of Organization.                          *)
(***************************************************************************)
C2_SortedByDate ==
    (Sorted /\ sortOrder = "date") =>
        \A i, j \in DOMAIN reports :
            i < j =>
                \/ reports[i].DateBegin < reports[j].DateBegin
                \/ /\ reports[i].DateBegin = reports[j].DateBegin
                   /\ LexLeq(reports[i].Organization, reports[j].Organization)

\* three aggregates sorted by date, two of them of one date and different
\* organizations, from arguments given in another order
C2_Witness ==
    /\ Sorted /\ sortOrder = "date"
    /\ Len(reports) = 3
    /\ reports # AggregatesOf(AllStreams)
    /\ reports[1].DateBegin = reports[2].DateBegin
    /\ reports[1].Organization # reports[2].Organization
    /\ reports[2].DateBegin < reports[3].DateBegin

(***************************************************************************)
(* C3. With --sort domain the sequence handed to the emitter is            *)
(* non-decreasing in Domain, ties in ascending DateBegin; with --sort      *)
(* organization it is non-decreasing in Organization, ties in ascending    *)
(* DateBegin.                                                              *)
(***************************************************************************)
C3_SortedByDomainOrOrganization ==
    /\ (Sorted /\ sortOrder = "domain") =>
           \A i, j \in DOMAIN reports :
               i < j =>
                   \/ StrLess(reports[i].Domain, reports[j].Domain)
                   \/ /\ reports[i].Domain = reports[j].Domain
                      /\ reports[i].DateBegin <= reports[j].DateBegin
    /\ (Sorted /\ sortOrder = "organization") =>
           \A i, j \in DOMAIN reports :
               i < j =>
                   \/ StrLess(reports[i].Organization, reports[j].Organization)
                   \/ /\ reports[i].Organization = reports[j].Organization
                      /\ reports[i].DateBegin <= reports[j].DateBegin

\* three aggregates sorted by domain, two of them of one domain and
\* different dates, from arguments given in another order
C3_Witness ==
    /\ Sorted /\ sortOrder = "domain"
    /\ Len(reports) = 3
    /\ reports # AggregatesOf(AllStreams)
    /\ reports[1].Domain # reports[2].Domain
    /\ reports[2].Domain = reports[3].Domain
    /\ reports[2].DateBegin < reports[3].DateBegin

(***************************************************************************)
(* C4. The emitted order is deterministic: in whatever order the same      *)
(* aggregates reach the collector, the sorter hands the emitter one and    *)
(* the same sequence.                                                      *)
(***************************************************************************)
C4_Deterministic ==
    Sorted => \A a \in Arrangements(reports) : SortOutcomes(sortOrder, a) = {reports}

(***************************************************************************)
(* C5. An unrecognized sort key is detected before any ingestion begins:   *)
(* with a --sort value that is none of date, domain, organization, no      *)
(* path is opened and no ingestion goroutine is started.                   *)
(***************************************************************************)
C5_BadKeyBeforeIngestion ==
    sortOrder \notin SortOrders => (idx = 1 /\ mpc # "zip" /\ workers = <<>>)

(***************************************************************************)
(* C6. A record whose disposition, DKIM or SPF token is outside its        *)
(* enumeration aborts the run: a goroutine whose document holds such a     *)
(* record never delivers, the process never ends normally and can only     *)
(* stop by log.Fatal, and no data line is written.                         *)
(***************************************************************************)
HasBadToken(name) ==
    LET d == Content(name) IN d.ok /\ \E i \in DOMAIN d.Records : ~ValidRecord(d.Records[i])

C6_BadTokenAborts ==
    \A w \in DOMAIN workers :
        HasBadToken(workers[w].doc) =>
            /\ workers[w].pc = "parse"
            /\ mpc # "done" /\ ~closed /\ ~Sorted
            /\ DataLines = {}
            /\ (~aborted => ENABLED Next)

\* the goroutine of baddisposition.xml has ended the process after the
\* collector had received the aggregate of a1.xml; only the header is
\* written
C6_Witness ==
    /\ args = <<"a1.xml", "baddisposition.xml">>
    /\ aborted
    /\ Len(workers) = 2 /\ workers[2].doc = "BadDisposition"
    /\ reports = <<Aggregate("A1")>>
    /\ output = <<HeaderLine>>

(***************************************************************************)
(* C10. A plain or gzip path that cannot be opened, or whose gzip header   *)
(* cannot be read, is logged and skipped: main logs one line for it,       *)
(* starts no goroutine and does not touch the WaitGroup for it, goes on    *)
(* with the next path, and a run that ends normally has collected exactly  *)
(* one aggregate per stream of the other paths.                            *)
(***************************************************************************)
\* the goroutines main has started when it is at path idx (and, in a zip
\* archive, at member zidx)
Launched == StreamsUpTo(idx - 1) \o
                (IF mpc = "zip" THEN [i \in 1..(zidx - 1) |-> File(args[idx]).members[i].doc]
                 ELSE <<>>)

C10_OpenFailureSkipped ==
    /\ {i \in 1..(idx - 1) : Skipped(args[i])} = {diag[k][2] : k \in DOMAIN diag}
    /\ Len(diag) = Cardinality({i \in 1..(idx - 1) : Skipped(args[i])})
    /\ [w \in DOMAIN workers |-> workers[w].doc] = Launched
    /\ wg = Cardinality({w \in DOMAIN workers : workers[w].pc = "parse"})
    /\ mpc = "done" =>
           /\ idx = Len(args) + 1
           /\ Len(reports) = Len(args) - Len(diag)
                                 + Cardinality({i \in DOMAIN args : File(args[i]).kind = "zip"})
           /\ SameBag(reports, AggregatesOf(AllStreams))

\* the run has ended normally with the aggregate of a1.xml, after main had
\* skipped a gzip file whose header it could not read
C10_Witness ==
    /\ args = <<"notgzip.xml.gz", "a1.xml">>
    /\ mpc = "done"
    /\ diag = <<(<<"failed to read gzip stream", 1>>)>>
    /\ Len(workers) = 1
    /\ reports = <<Aggregate("A1")>>

(***************************************************************************)
(* C7. For a valid record of count c, Report.Add changes only the row of   *)
(* the record's HeaderFrom, which it creates on first occurrence, and in   *)
(* that row adds c to exactly one of the three disposition counters, to    *)
(* exactly one of DKIMPass and DKIMFail and to exactly one of SPFPass and  *)
(* SPFFail; every other row is as before.                                  *)
(***************************************************************************)
\* the value a counter of row h had before the last Add
Before(h, c) == IF h \in DOMAIN aPrev THEN aPrev[h][c] ELSE 0

\* the last Add added n to exactly one counter of row h among cs and left
\* the other counters among cs as they were
OneOfAdded(h, cs, n) ==
    \E c \in cs :
        /\ aDomains[h][c] = Before(h, c) + n
        /\ \A e \in cs \ {c} : aDomains[h][e] = Before(h, e)

C7_AddFrame ==
    (aRecs # <<>> /\ ~aFatal) =>
        LET rec == aRecs[Len(aRecs)]
            h == rec.HeaderFrom
        IN  /\ DOMAIN aDomains = DOMAIN aPrev \cup {h}
            /\ \A g \in DOMAIN aPrev \ {h} : aDomains[g] = aPrev[g]
            /\ aDomains[h].HeaderFrom = h
            /\ OneOfAdded(h, {"PolicyNone", "PolicyQuarantine", "PolicyReject"}, rec.Count)
            /\ OneOfAdded(h, {"DKIMPass", "DKIMFail"}, rec.Count)
            /\ OneOfAdded(h, {"SPFPass", "SPFFail"}, rec.Count)

\* the second Add has created the row of example.com beside the row of
\* example.org and added the count 1 to it
C7_Witness ==
    /\ Len(aRecs) = 2 /\ ~aFatal
    /\ aRecs[1].HeaderFrom = "example.org" /\ aRecs[1].Count = 1
    /\ aRecs[2].HeaderFrom = "example.com" /\ aRecs[2].Count = 1
    /\ aRecs[2].Disposition = "quarantine"
    /\ aDomains["example.com"].PolicyQuarantine = 1
    /\ aDomains["example.org"] = aPrev["example.org"]

(***************************************************************************)
(* C8. For the aggregate of a valid document, the three disposition        *)
(* counters summed over all rows equal the sum of the count fields of the  *)
(* document's records, and so do SPFPass + SPFFail and DKIMPass +          *)
(* DKIMFail summed over all rows.                                          *)
(***************************************************************************)
RECURSIVE SumCounts(_)
SumCounts(recs) == IF recs = <<>> THEN 0 ELSE Head(recs).Count + SumCounts(Tail(recs))

RECURSIVE SumRows(_, _, _)
SumRows(domains, keys, c) ==
    IF keys = {} THEN 0
    ELSE LET h == CHOOSE k \in keys : TRUE
         IN  domains[h][c] + SumRows(domains, keys \ {h}, c)

Total(domains, c) == SumRows(domains, DOMAIN domains, c)

C8_CountersSumToCounts ==
    ~aFatal =>
        /\ Total(aDomains, "PolicyNone") + Total(aDomains, "PolicyQuarantine")
               + Total(aDomains, "PolicyReject") = SumCounts(aRecs)
        /\ Total(aDomains, "SPFPass") + Total(aDomains, "SPFFail") = SumCounts(aRecs)
        /\ Total(aDomains, "DKIMPass") + Total(aDomains, "DKIMFail") = SumCounts(aRecs)

\* two records of one destination and different outcomes, each of count 1
C8_Witness ==
    /\ Len(aRecs) = 2 /\ ~aFatal
    /\ aRecs[1].HeaderFrom = aRecs[2].HeaderFrom
    /\ aRecs[1].Count = 1 /\ aRecs[2].Count = 1
    /\ aRecs[1].Disposition = "none" /\ aRecs[2].Disposition = "reject"
    /\ aRecs[1].EvalDKIM # aRecs[2].EvalDKIM
    /\ aRecs[1].EvalSPF = aRecs[2].EvalSPF
    /\ SumCounts(aRecs) = 2

(***************************************************************************)
(* C9. The Domains of an aggregate has exactly one row per distinct        *)
(* HeaderFrom of the document's records, records of one HeaderFrom share   *)
(* a row, and Format writes one line per row: none for a document          *)
(* without records.                                                        *)
(***************************************************************************)
C9_OneRowPerDestination ==
    ~aFatal =>
        LET dests == {aRecs[i].HeaderFrom : i \in DOMAIN aRecs}
            r == [DateBegin |-> 0, DateEnd |-> 0, Domains |-> aDomains,
                  Organization |-> <<>>, Domain |-> <<>>]
        IN  /\ DOMAIN aDomains = dests
            /\ \A h \in DOMAIN aDomains : aDomains[h].HeaderFrom = h
            /\ \A lines \in FormatOutcomes(r) :
                   /\ Len(lines) = Cardinality(dests)
                   /\ {lines[i].HeaderFrom : i \in DOMAIN lines} = dests
            /\ (aRecs = <<>> => FormatOutcomes(r) = {<<>>})

\* two valid records of one destination have merged into one row
C9_Witness ==
    /\ Len(aRecs) = 2 /\ ~aFatal
    /\ aRecs[1].HeaderFrom = "example.com" /\ aRecs[2].HeaderFrom = "example.com"
    /\ DOMAIN aDomains = {"example.com"}
    /\ aDomains["example.com"].PolicyNone + aDomains["example.com"].PolicyQuarantine
           + aDomains["example.com"].PolicyReject = 2

(***************************************************************************)
(* C11: on paths that all open and hold valid documents, with a --sort     *)
(* value of the switch, and with more streams than the channel holds, the  *)
(* pipeline does not deadlock: every goroutine sends its Report and leaves *)
(* the WaitGroup, main closes the channel, the collector receives, sorts   *)
(* and formats every Report and sends on exit, and main returns.           *)
(***************************************************************************)
Finished ==
    /\ mpc = "done" /\ cpc = "done" /\ ~aborted
    /\ \A w \in DOMAIN workers : workers[w].pc = "done"
    /\ wg = 0 /\ closed /\ out = <<>>
    /\ Len(reports) = Len(workers)
    /\ emitIdx = Len(reports) + 1

C11_NoDeadlock == <>Finished

\* a run of more streams than the channel holds has finished
C11_Witness == Finished /\ Len(workers) > ScaledCap

\* a goroutine waits in its send on the full channel
SendWaits == Len(out) = ScaledCap /\ \E w \in DOMAIN workers : workers[w].pc = "parse"

(***************************************************************************)
(* C12: every date-begin and date-end written is the UTC date and time of  *)
(* day, on the 24-hour clock, of the document's epoch seconds, and a begin *)
(* and an end that differ in their UTC hour are not written as the same    *)
(* text.                                                                   *)
(***************************************************************************)
C12_CalendarText ==
    \A i \in DataLines :
        LET b == DateOf(dates[1])
            e == DateOf(dates[2])
        IN  /\ output[i].DateBegin = CivilUTC(b)
            /\ output[i].DateEnd = CivilUTC(e)
            /\ CivilUTC(b)[4] # CivilUTC(e)[4] => output[i].DateBegin # output[i].DateEnd

(***************************************************************************)
(* C13: the header is the first line written and is written once; the      *)
(* collector then writes, Report by Report in the order of the sorted      *)
(* slice, one line per entry of the Report's Domains, so the lines of a    *)
(* Report are contiguous and the data lines number the rows of the         *)
(* Reports formatted so far.                                               *)
(***************************************************************************)
Rows(r) == Cardinality(DOMAIN r.Domains)

\* the number of lines written before those of reports[k]
RECURSIVE LinesBefore(_)
LinesBefore(k) == IF k = 1 THEN 1 ELSE LinesBefore(k - 1) + Rows(reports[k - 1])

C13_HeaderThenRows ==
    /\ mpc = "start" => output = <<>>
    /\ mpc # "start" =>
           /\ output # <<>> /\ output[1] = HeaderLine
           /\ \A i \in DOMAIN output : i > 1 => output[i].kind = "data"
    /\ ~Sorted => DataLines = {}
    /\ Sorted =>
           /\ Len(output) = LinesBefore(emitIdx)
           /\ \A k \in 1..(emitIdx - 1) :
                  LET r == reports[k]
                      at == (LinesBefore(k) + 1)..(LinesBefore(k) + Rows(r))
                  IN  /\ \A i \in at : \E h \in DOMAIN r.Domains :
                                           output[i] = DataLine(r, r.Domains[h])
                      /\ \A h \in DOMAIN r.Domains :
                             Cardinality({i \in at : output[i].HeaderFrom = h}) = 1

\* two Reports, one of two rows, have been formatted
C13_Witness ==
    /\ mpc = "done" /\ Len(reports) = 2
    /\ Rows(reports[1]) = 2 /\ Rows(reports[2]) = 1
    /\ Len(output) = 4

(***************************************************************************)
(* C14: DateBegin and DateEnd never fail. A date-range text that, once     *)
(* trimmed, is not an optional sign and decimal digits gives Unix time 0;  *)
(* the document's records are still added up, its Report is sent to the    *)
(* collector, and the process is not ended.                                *)
(***************************************************************************)
IsDecimalInteger(t) ==
    LET body == IF t # <<>> /\ Head(t) \in {"+", "-"} THEN Tail(t) ELSE t
    IN  body # <<>> /\ \A i \in DOMAIN body : body[i] \in Digits

C14_DateNeverFails ==
    /\ ~aborted
    /\ \A r \in Range(out) \cup Range(reports) :
           /\ ~IsDecimalInteger(TrimSpace(dates[1])) => r.DateBegin = 0
           /\ ~IsDecimalInteger(TrimSpace(dates[2])) => r.DateEnd = 0
           /\ DOMAIN r.Domains = {"example.com"}
           /\ r.Domains["example.com"].PolicyNone = 1
    /\ Len(out) + Len(reports) = Cardinality({w \in DOMAIN workers : workers[w].pc = "done"})
    /\ Collected => Len(reports) = 1

\* a document whose begin text is not a number has gone through the
\* pipeline and has been written with Unix time 0
C14_Witness ==
    /\ mpc = "done" /\ Len(reports) = 1 /\ Len(output) = 2
    /\ TrimSpace(dates[1]) # <<>> /\ ~IsDecimalInteger(TrimSpace(dates[1]))
    /\ IsDecimalInteger(dates[2])
    /\ reports[1].DateBegin = 0 /\ reports[1].DateEnd # 0

(***************************************************************************)
(* C15: close(out) runs only after every goroutine main has started has    *)
(* sent and called wg.Done(), so no goroutine is left to send on the       *)
(* closed channel, and the collector is past its receive loop only when    *)
(* the Report of every goroutine has been received.                        *)
(***************************************************************************)
C15_CloseAfterAllDone ==
    /\ closed =>
           /\ idx > Len(args) /\ wg = 0
           /\ \A w \in DOMAIN workers : workers[w].pc = "done"
    /\ Sorted => closed /\ out = <<>> /\ Len(reports) = Len(workers)

\* the channel is closed behind two goroutines and the collector has left
\* its loop
C15_Witness ==
    /\ closed /\ Len(workers) = 2 /\ cpc = "emit" /\ Len(reports) = 2

(***************************************************************************)
(* C16: counters never decrease. After each Report.Add of the loop over    *)
(* the records of a decoded document, each counter of every row is at      *)
(* least what it was before the call, and is not negative.                 *)
(***************************************************************************)
RowCounters ==
    {"DKIMPass", "DKIMFail", "SPFPass", "SPFFail", "PolicyNone", "PolicyQuarantine",
     "PolicyReject"}

C16_CountersNeverDecrease ==
    \A h \in DOMAIN aDomains : \A c \in RowCounters :
        aDomains[h][c] >= Before(h, c) /\ aDomains[h][c] >= 0

(***************************************************************************)
(* C17: a Report is written only by the goroutine that builds it, and only *)
(* before it is sent. From the send on, the Reports in the channel and in  *)
(* the collector's slice are those the goroutines sent, each as its        *)
(* goroutine left it and as parse builds it from its document: receiving,  *)
(* sorting and formatting change the positions in the slice and nothing of *)
(* a Report.                                                               *)
(***************************************************************************)
HasSent(w) == workers[w].pc \in {"sent", "done"}

\* the Reports of the goroutines that have sent, in the order main started
\* the goroutines
RECURSIVE SentUpTo(_)
SentUpTo(n) ==
    IF n = 0 THEN <<>>
    ELSE SentUpTo(n - 1) \o (IF HasSent(n) THEN <<workers[n].report>> ELSE <<>>)

C17_ImmutableAfterSend ==
    /\ \A w \in DOMAIN workers :
           workers[w].pc \in {"send", "sent", "done"} =>
               workers[w].report = Aggregate(workers[w].doc)
    /\ SameBag(out \o reports, SentUpTo(Len(workers)))

\* two Reports have been received, sorted into the other order and
\* formatted
C17_Witness ==
    /\ mpc = "done" /\ Len(workers) = 2 /\ Len(output) > 2
    /\ workers[1].report # workers[2].report
    /\ reports = <<workers[2].report, workers[1].report>>

(***************************************************************************)
(* C18: the lock-based revision and the channel-based revision write the   *)
(* same sequence of data rows for the same valid documents: the rows a run *)
(* of the lock-based revision has written when main returns are rows that  *)
(* the collector, sorting by sortOrder, can write for the same paths.      *)
(***************************************************************************)
\* a line without the mark of the goroutine that printed it
Unmarked(line) == [f \in DOMAIN line \ {"by"} |-> line[f]]

\* what the loop over the slice q can write
RECURSIVE EmitOutcomes(_)
EmitOutcomes(q) ==
    IF q = <<>> THEN {<<>>}
    ELSE {lines \o rest : lines \in FormatOutcomes(Head(q)), rest \in EmitOutcomes(Tail(q))}

CollectorOutcomes ==
    UNION {EmitOutcomes(q) : q \in SortOutcomes(sortOrder, AggregatesOf(AllStreams))}

C18_SameRows ==
    mpc = "done" =>
        [i \in 1..(Len(output) - 1) |-> Unmarked(output[i + 1])] \in CollectorOutcomes

(***************************************************************************)
(* C19: in the lock-based revision at most one goroutine is between its    *)
(* Lock and its Unlock, so the lines of one document are contiguous in the *)
(* output, a goroutine past its Unlock has printed one line for each of    *)
(* its rows, and wg.Wait() returns only when every goroutine main started  *)
(* has released the lock and called wg.Done().                             *)
(***************************************************************************)
Printing == {w \in DOMAIN workers : workers[w].pc = "print"}

LinesBy(w) == {i \in DataLines : output[i].by = w}

C19_OutputSerialized ==
    /\ Cardinality(Printing) <= 1
    /\ \A w \in DOMAIN workers : w \in Printing <=> printfLock = w
    /\ \A i, j, k \in DataLines :
           (i < j /\ j < k /\ output[i].by = output[k].by) => output[j].by = output[i].by
    /\ \A w \in DOMAIN workers :
           /\ workers[w].pc \in {"parse", "send"} => LinesBy(w) = {}
           /\ workers[w].pc = "print" =>
                  Cardinality(LinesBy(w)) + Len(workers[w].todo) = Rows(workers[w].report)
           /\ workers[w].pc \in {"sent", "done"} =>
                  Cardinality(LinesBy(w)) = Rows(workers[w].report)
    /\ mpc = "done" =>
           /\ printfLock = 0 /\ idx > Len(args)
           /\ \A w \in DOMAIN workers : workers[w].pc = "done"

\* two goroutines have printed, the second one started first, and main
\* has returned
C19_Witness ==
    /\ mpc = "done" /\ Len(workers) = 2 /\ Len(output) = 4
    /\ output[2].by = 2 /\ output[3].by = 2 /\ output[4].by = 1

(***************************************************************************)
(* C20: in the first lock-based revision a plain file that cannot be       *)
(* opened is logged and skipped: main starts no goroutine for it, and the  *)
(* process is ended only on account of a path that did open.               *)
(***************************************************************************)
Openable(k) == File(args[k]).canOpen

C20_FirstRevisionSkips ==
    /\ Len(diag) = Cardinality({k \in 1..(idx - 1) : ~Openable(k)})
    /\ Len(workers) = Cardinality({k \in 1..(idx - 1) : Openable(k)})
    /\ aborted => \E k \in 1..(idx - 1) : Openable(k)

(***************************************************************************)
(* C21: the output of the channel-based pipeline is all or nothing. No     *)
(* data line is written before main has started every goroutine and every  *)
(* goroutine has sent and called wg.Done(); so when a goroutine's document *)
(* fails to decode or holds a token outside its enumeration, and whenever  *)
(* the process is ended by log.Fatal, the output is the header alone, in   *)
(* whatever order the other goroutines have run.                           *)
(***************************************************************************)
\* parse is fatal on the stream: the decoding fails or a record holds a
\* token outside its enumeration
FatalStream(name) == ~Content(name).ok \/ HasBadToken(name)

C21_AllOrNothing ==
    /\ DataLines # {} =>
           /\ idx > Len(args) /\ closed /\ ~aborted
           /\ \A w \in DOMAIN workers : workers[w].pc = "done"
    /\ (\E w \in DOMAIN workers : FatalStream(workers[w].doc)) => DataLines = {}
    /\ aborted => output = <<HeaderLine>>

\* the goroutine of a valid document has sent and the collector has
\* received its Report when the goroutine of a second document is fatal:
\* the header is all that was written
C21_Witness ==
    /\ aborted /\ Len(workers) = 2
    /\ FatalStream(workers[2].doc) /\ workers[2].pc = "parse"
    /\ workers[1].pc = "done" /\ Len(reports) = 1 /\ Rows(reports[1]) > 0
    /\ output = <<HeaderLine>>

====
